---- MODULE Spec2Model ----
(***************************************************************************)
(* tools/create_pkg_manifest.py: one run of Main.  A text is a sequence of *)
(* tokens whose concatenation is the string; keys and reference values are *)
(* sequences of one-character tokens, the literals of the manifest         *)
(* template are longer tokens that contain no double quote.                *)
(***************************************************************************)
EXTENDS Integers, Sequences, FiniteSets, TLC

VARIABLES pc, input, prior, deps_content, ip, local_scope, filtered_deps,
          fp, manifest, manifest_file, todo, error

vars == <<pc, input, prior, deps_content, ip, local_scope, filtered_deps,
          fp, manifest, manifest_file, todo, error>>

\* ------------------------------------------------------------------ bounds
MaxPieces == 3      \* pieces concatenated into one dependency key
MaxBindings == 3    \* top-level bindings in a declaration file
MaxDeps == 2        \* entries of a deps binding in the writer inputs

\* ------------------------------------------------------------ str helpers
\* Characters of the model in byte order (str comparison is bytewise).
ByteOrder == <<"/", "@", "_", "a", "d", "g", "h", "i", "k", "p", "r", "s",
               "t", "u", "v", "x", "y">>

Ord(c) == CHOOSE i \in 1..Len(ByteOrder) : ByteOrder[i] = c

Min(a, b) == IF a < b THEN a ELSE b

\* s < t for str: the first differing character decides, a proper prefix is smaller.
StrLess(s, t) ==
    LET n == Min(Len(s), Len(t))
        diff == {i \in 1..n : s[i] # t[i]}
    IN  IF diff = {} THEN Len(s) < Len(t)
        ELSE LET i == CHOOSE j \in diff : \A k \in diff : j <= k
             IN  Ord(s[i]) < Ord(t[i])

MatchAt(s, sub, i) ==
    /\ i + Len(sub) - 1 <= Len(s)
    /\ \A j \in 1..Len(sub) : s[i + j - 1] = sub[j]

\* str.find, 1-based; 0 when sub does not occur.
Find(s, sub) ==
    LET hits == {i \in 1..(Len(s) + 1) : MatchAt(s, sub, i)}
    IN  IF hits = {} THEN 0 ELSE CHOOSE i \in hits : \A j \in hits : i <= j

\* sub in s
Contains(s, sub) == Find(s, sub) # 0

\* Mutant: s.replace(old, new), every occurrence.
RECURSIVE ReplaceAll(_, _, _)
ReplaceAll(s, old, new) ==
    LET i == Find(s, old)
    IN  IF i = 0 THEN s
        ELSE SubSeq(s, 1, i - 1) \o new
                \o ReplaceAll(SubSeq(s, i + Len(old), Len(s)), old, new)

\* s.replace(old, new, 1)
ReplaceFirst(s, old, new) ==
    LET i == Find(s, old)
    IN  IF i = 0 THEN s
        ELSE SubSeq(s, 1, i - 1) \o new \o SubSeq(s, i + Len(old), Len(s))

\* s.split(sep) for a one-character sep: every occurrence separates.
RECURSIVE Split(_, _)
Split(s, sep) ==
    LET i == Find(s, <<sep>>)
    IN  IF i = 0 THEN <<s>>
        ELSE <<SubSeq(s, 1, i - 1)>> \o Split(SubSeq(s, i + 1, Len(s)), sep)

\* Mutant: the items in descending order.
RECURSIVE SortedDescending(_)
SortedDescending(S) ==
    IF S = {} THEN <<>>
    ELSE LET m == CHOOSE x \in S : \A y \in S \ {x} : StrLess(y, x)
         IN  <<m>> \o SortedDescending(S \ {m})

\* sorted(...) of a set of str, ascending.
RECURSIVE SortedSeq(_)
SortedSeq(S) ==
    IF S = {} THEN <<>>
    ELSE LET m == CHOOSE x \in S : \A y \in S \ {x} : StrLess(x, y)
         IN  <<m>> \o SortedSeq(S \ {m})

\* ------------------------------------------------------- program literals
Sdk == <<"s", "d", "k">>
Dart == <<"d", "a", "r", "t">>
ThirdPartyPkg == <<"/", "t", "h", "i", "r", "d", "_", "p", "a", "r", "t", "y",
                   "/", "p", "k", "g">>
Marker == Sdk \o ThirdPartyPkg      \* 'sdk/third_party/pkg'
At == "@"
Quote == "\""

Warning == <<"<!-- This file is generated by //dart/tools/create_pkg_manifest.py. DO NOT EDIT -->\n">>
HeaderLines == <<Warning,
                 <<"<?xml version=", Quote, "1.0", Quote, " encoding=", Quote, "UTF-8", Quote, "?>\n">>,
                 <<"<manifest>\n">>,
                 <<"  <projects>\n">>>>
FooterLines == << <<"  </projects>\n">>, <<"</manifest>\n">> >>

\* project_template % (name, path, remote, revision)
project_template(name, path, remote, revision) ==
    <<"\n    <project name=", Quote>> \o name \o
    <<Quote, "\n             path=", Quote>> \o path \o
    <<Quote, "\n             remote=", Quote>> \o remote \o
    <<Quote, "\n             revision=", Quote>> \o revision \o
    <<Quote, "/>\n">>

RECURSIVE Flatten(_)
Flatten(chunks) ==
    IF chunks = <<>> THEN <<>> ELSE Head(chunks) \o Flatten(Tail(chunks))

\* ------------------------------------------------------------ input space
\* A reference expression is a sequence of parts joined by +: a string
\* literal, or a call Var(name).
Lit(t) == [var |-> FALSE, text |-> t]
VarCall(n) == [var |-> TRUE, text |-> n]

Rev == <<"r", "e", "v">>

Binding(n, v) == [name |-> n, value |-> v]

NoFile == [exists |-> FALSE, text |-> <<>>]
OldFile == [exists |-> TRUE, text |-> <<"old contents\n">>]

Pieces == {Sdk, Dart, ThirdPartyPkg, Marker}

RECURSIVE KeysOf(_)
KeysOf(n) ==
    IF n = 0 THEN {<<>>}
    ELSE LET shorter == KeysOf(n - 1)
         IN  shorter \cup {k \o p : k \in shorter, p \in Pieces}

Keys == KeysOf(MaxPieces) \ {<<>>}

V1 == <<"u", "@", "r">>
V2 == <<"v", "@", "r">>

\* Sequences over S of length 0..n.
RECURSIVE SeqsUpTo(_, _)
SeqsUpTo(S, n) ==
    IF n = 0 THEN {<<>>}
    ELSE LET shorter == SeqsUpTo(S, n - 1)
         IN  shorter \cup {Append(q, x) : q \in shorter, x \in S}

Maps(K, V, n) ==
    UNION {[S -> V] : S \in {T \in SUBSET K : Cardinality(T) <= n}}

\* Declaration files that exercise evaluation order.
EvalPool ==
    {Binding("vars", <<>>), Binding("vars", Rev :> <<"r">>),
     Binding("deps_os", <<>>),
     Binding("deps", Marker :> <<Lit(V1)>>),
     Binding("deps", Marker :> <<Lit(<<"u", "@">>), VarCall(Rev)>>),
     Binding("deps", (Marker :> <<Lit(<<"u", "@">>), VarCall(Rev)>>)
                     @@ (Dart \o ThirdPartyPkg :> <<Lit(V2)>>))}
EvalFiles == SeqsUpTo(EvalPool, MaxBindings)

\* Declaration files that exercise the writer: reference values with no,
\* one and two separators.
WriterKeys == {Marker, Marker \o <<"/", "x">>, Marker \o <<"/", "y">>}
WriterExprs == {<<Lit(V1)>>, <<Lit(<<"u">>)>>, <<Lit(<<"u", "@", "r", "@", "x">>)>>,
                <<Lit(<<"v", "@">>), VarCall(Rev)>>}
WriterFiles ==
    {<<Binding("vars", Rev :> <<"r">>), Binding("deps", d)>> :
        d \in Maps(WriterKeys, WriterExprs, MaxDeps)}

\* Declaration files that exercise the filter: up to two literal entries
\* over every key built from the pieces.
FilterFiles ==
    {<<Binding("deps", (k1 :> <<Lit(V1)>>) @@ (k2 :> <<Lit(v)>>))>> :
        k1 \in Keys, k2 \in Keys, v \in {V1, V2}}

FilesOf(B) ==
    {[exists |-> TRUE, wellformed |-> TRUE, bindings |-> b] : b \in B}
    \cup {[exists |-> TRUE, wellformed |-> FALSE, bindings |-> <<>>],
          [exists |-> FALSE, wellformed |-> FALSE, bindings |-> <<>>]}

\* ------------------------------------------------------------- evaluator
ScopeGet(scope, name, default) ==
    IF name \in DOMAIN scope THEN scope[name] ELSE default

\* Mutant: an undefined name yields the empty string instead of raising.
LookupDefault(scope, var_name) ==
    IF var_name \in DOMAIN ScopeGet(scope, "vars", <<>>)
    THEN [ok |-> TRUE, val |-> scope["vars"][var_name]]
    ELSE [ok |-> TRUE, val |-> <<>>]

\* VarImpl.Lookup
Lookup(scope, var_name) ==
    IF var_name \in DOMAIN ScopeGet(scope, "vars", <<>>)
    THEN [ok |-> TRUE, val |-> scope["vars"][var_name]]
    ELSE [ok |-> FALSE, val |-> <<>>]

\* A reference expression, evaluated left to right.
RECURSIVE EvalExpr(_, _)
EvalExpr(scope, e) ==
    IF e = <<>> THEN [ok |-> TRUE, val |-> <<>>]
    ELSE LET first == IF Head(e).var THEN Lookup(scope, Head(e).text)
                      ELSE [ok |-> TRUE, val |-> Head(e).text]
             rest == EvalExpr(scope, Tail(e))
         IN  IF first.ok /\ rest.ok
             THEN [ok |-> TRUE, val |-> first.val \o rest.val]
             ELSE [ok |-> FALSE, val |-> <<>>]

\* The right-hand side of one top-level binding.
EvalBinding(scope, b) ==
    IF b.name = "deps"
    THEN LET r == [k \in DOMAIN b.value |-> EvalExpr(scope, b.value[k])]
         IN  IF \A k \in DOMAIN r : r[k].ok
             THEN [ok |-> TRUE, val |-> [k \in DOMAIN r |-> r[k].val]]
             ELSE [ok |-> FALSE, val |-> <<>>]
    ELSE [ok |-> TRUE, val |-> b.value]

\* Mutant: a name that is already bound keeps its first value.
BindOnce(scope, name, value) ==
    [n \in DOMAIN scope \cup {name} |->
        IF n \in DOMAIN scope THEN scope[n] ELSE value]

\* local_scope[name] = value
Bind(scope, name, value) ==
    [n \in DOMAIN scope \cup {name} |-> IF n = name THEN value ELSE scope[n]]

\* --------------------------------------------------------- filter/rewrite
Orders(S) ==
    {q \in [1..Cardinality(S) -> S] : \A i, j \in 1..Cardinality(S) : q[i] = q[j] => i = j}

\* Mutant: the matching entries are kept under their original keys.
RECURSIVE FilterDepsNoRewrite(_, _, _)
FilterDepsNoRewrite(deps, order, filtered) ==
    IF order = <<>> THEN filtered
    ELSE LET k == Head(order)
         IN  IF Contains(k, Marker)
             THEN FilterDepsNoRewrite(deps, Tail(order), Bind(filtered, k, deps[k]))
             ELSE FilterDepsNoRewrite(deps, Tail(order), filtered)

\* Mutant: the inclusion test looks for 'third_party/pkg' only.
RECURSIVE FilterDepsLooseTest(_, _, _)
FilterDepsLooseTest(deps, order, filtered) ==
    IF order = <<>> THEN filtered
    ELSE LET k == Head(order)
         IN  IF Contains(k, Tail(ThirdPartyPkg))
             THEN FilterDepsLooseTest(deps, Tail(order),
                      Bind(filtered, ReplaceFirst(k, Sdk, Dart), deps[k]))
             ELSE FilterDepsLooseTest(deps, Tail(order), filtered)

\* The loop of ParseDepsFile over deps.iteritems() taken in the order `order`.
RECURSIVE FilterDeps(_, _, _)
FilterDeps(deps, order, filtered) ==
    IF order = <<>> THEN filtered
    ELSE LET k == Head(order)
             v == deps[k]
         IN  IF Contains(k, Marker)
             THEN FilterDeps(deps, Tail(order),
                             Bind(filtered, ReplaceFirst(k, Sdk, Dart), v))
             ELSE FilterDeps(deps, Tail(order), filtered)

\* ------------------------------------------------------------------- Init
InitWith(files, priors) ==
    /\ input \in files
    /\ prior \in priors
    /\ manifest_file = prior
    /\ pc = "open_input"
    /\ deps_content = <<>>
    /\ ip = 1
    /\ local_scope = <<>>
    /\ filtered_deps = <<>>
    /\ fp = "none"
    /\ manifest = "none"
    /\ todo = <<>>
    /\ error = "none"

\* A run of Main.
Init == InitWith(FilesOf(EvalFiles \cup WriterFiles), {NoFile, OldFile})

\* A call of ParseDepsFile on the filter inputs.
InitParse == InitWith(FilesOf(FilterFiles), {NoFile})

Fail(kind) == pc' = "failed" /\ error' = kind

\* ---------------------------------------------------------- ParseDepsFile
OpenInput ==
    /\ pc = "open_input"
    /\ IF input.exists
       THEN /\ fp' = "open"
            /\ pc' = "read_input"
            /\ UNCHANGED error
       ELSE /\ Fail("IOError")
            /\ UNCHANGED fp
    /\ UNCHANGED <<input, prior, deps_content, ip, local_scope, filtered_deps,
                   manifest, manifest_file, todo>>

\* fp.read() and the exit of the with block.
ReadInput ==
    /\ pc = "read_input"
    /\ deps_content' = input.bindings
    /\ fp' = "closed"
    /\ pc' = "exec"
    /\ UNCHANGED <<input, prior, ip, local_scope, filtered_deps, manifest,
                   manifest_file, todo, error>>

\* fp.read() raises; the with block still closes fp.
ReadInputFail ==
    /\ pc = "read_input"
    /\ fp' = "closed"
    /\ Fail("IOError")
    /\ UNCHANGED <<input, prior, deps_content, ip, local_scope, filtered_deps,
                   manifest, manifest_file, todo>>

\* exec cannot compile the content.
ExecSyntaxError ==
    /\ pc = "exec"
    /\ ~input.wellformed
    /\ Fail("SyntaxError")
    /\ UNCHANGED <<input, prior, deps_content, ip, local_scope, filtered_deps,
                   fp, manifest, manifest_file, todo>>

\* exec runs the next top-level binding.
ExecStmt ==
    /\ pc = "exec"
    /\ input.wellformed
    /\ ip <= Len(deps_content)
    /\ LET b == deps_content[ip]
           r == EvalBinding(local_scope, b)
       IN  IF r.ok
           THEN /\ local_scope' = Bind(local_scope, b.name, r.val)
                /\ ip' = ip + 1
                /\ UNCHANGED <<pc, error>>
           ELSE /\ Fail("VarNotDefined")
                /\ UNCHANGED <<local_scope, ip>>
    /\ UNCHANGED <<input, prior, deps_content, filtered_deps, fp, manifest,
                   manifest_file, todo>>

\* Extract the deps and filter; ParseDepsFile returns.
Filter ==
    /\ pc = "exec"
    /\ input.wellformed
    /\ ip > Len(deps_content)
    /\ LET deps == ScopeGet(local_scope, "deps", <<>>)
       IN  \E order \in Orders(DOMAIN deps) :
               filtered_deps' = FilterDeps(deps, order, <<>>)
    /\ pc' = "open_output"
    /\ UNCHANGED <<input, prior, deps_content, ip, local_scope, fp, manifest,
                   manifest_file, todo, error>>

\* ---------------------------------------------------------- WriteManifest
Written(text) == [exists |-> TRUE, text |-> manifest_file.text \o text]

\* open(manifest_file, 'w')
OpenOutput ==
    /\ pc = "open_output"
    /\ manifest' = "open"
    /\ manifest_file' = [exists |-> TRUE, text |-> <<>>]
    /\ pc' = "write_header"
    /\ UNCHANGED <<input, prior, deps_content, ip, local_scope, filtered_deps,
                   fp, todo, error>>

OpenOutputFail ==
    /\ pc = "open_output"
    /\ Fail("IOError")
    /\ UNCHANGED <<input, prior, deps_content, ip, local_scope, filtered_deps,
                   fp, manifest, manifest_file, todo>>

\* The four header writes, then sorted(deps.iteritems()).
WriteHeader ==
    /\ pc = "write_header"
    /\ manifest_file' = Written(Flatten(HeaderLines))
    /\ todo' = SortedSeq(DOMAIN filtered_deps)
    /\ pc' = "write_projects"
    /\ UNCHANGED <<input, prior, deps_content, ip, local_scope, filtered_deps,
                   fp, manifest, error>>

\* One of the header writes raises after n of them succeeded.
WriteHeaderFail ==
    /\ pc = "write_header"
    /\ \E n \in 0..(Len(HeaderLines) - 1) :
           manifest_file' = Written(Flatten(SubSeq(HeaderLines, 1, n)))
    /\ manifest' = "closed"
    /\ Fail("IOError")
    /\ UNCHANGED <<input, prior, deps_content, ip, local_scope, filtered_deps,
                   fp, todo>>

\* Mutant: the file is opened without a with block, so an IndexError
\* leaves it open.
WriteProjectNoWith ==
    /\ pc = "write_projects"
    /\ todo # <<>>
    /\ LET path == Head(todo)
           remote == filtered_deps[path]
           remote_components == Split(remote, At)
       IN  IF Len(remote_components) < 2
           THEN /\ Fail("IndexError")
                /\ UNCHANGED <<manifest, manifest_file, todo>>
           ELSE /\ manifest_file' = [exists |-> TRUE,
                                     text |-> manifest_file.text \o
                                         project_template(path, path,
                                             remote_components[1], remote_components[2])]
                /\ todo' = Tail(todo)
                /\ UNCHANGED <<pc, manifest, error>>
    /\ UNCHANGED <<input, prior, deps_content, ip, local_scope, filtered_deps, fp>>

\* One iteration of the loop over the sorted items.
WriteProject ==
    /\ pc = "write_projects"
    /\ todo # <<>>
    /\ LET path == Head(todo)
           remote == filtered_deps[path]
           remote_components == Split(remote, At)
       IN  IF Len(remote_components) < 2
           THEN /\ manifest' = "closed"
                /\ Fail("IndexError")
                /\ UNCHANGED <<manifest_file, todo>>
           ELSE /\ manifest_file' = Written(project_template(path, path,
                                        remote_components[1], remote_components[2]))
                /\ todo' = Tail(todo)
                /\ UNCHANGED <<pc, manifest, error>>
    /\ UNCHANGED <<input, prior, deps_content, ip, local_scope, filtered_deps, fp>>

WriteProjectFail ==
    /\ pc = "write_projects"
    /\ todo # <<>>
    /\ manifest' = "closed"
    /\ Fail("IOError")
    /\ UNCHANGED <<input, prior, deps_content, ip, local_scope, filtered_deps,
                   fp, manifest_file, todo>>

\* The two closing writes, the exit of the with block, return 0.
WriteFooter ==
    /\ pc = "write_projects"
    /\ todo = <<>>
    /\ manifest_file' = Written(Flatten(FooterLines))
    /\ manifest' = "closed"
    /\ pc' = "done"
    /\ UNCHANGED <<input, prior, deps_content, ip, local_scope, filtered_deps,
                   fp, todo, error>>

WriteFooterFail ==
    /\ pc = "write_projects"
    /\ todo = <<>>
    /\ \E n \in 0..(Len(FooterLines) - 1) :
           manifest_file' = Written(Flatten(SubSeq(FooterLines, 1, n)))
    /\ manifest' = "closed"
    /\ Fail("IOError")
    /\ UNCHANGED <<input, prior, deps_content, ip, local_scope, filtered_deps,
                   fp, todo>>

Next ==
    \/ OpenInput \/ ReadInput \/ ReadInputFail
    \/ ExecSyntaxError \/ ExecStmt \/ Filter
    \/ OpenOutput \/ OpenOutputFail
    \/ WriteHeader \/ WriteHeaderFail
    \/ WriteProject \/ WriteProjectFail
    \/ WriteFooter \/ WriteFooterFail

Spec == Init /\ [][Next]_vars

\* ParseDepsFile alone: the run is followed up to its return.
NextParse ==
    \/ OpenInput \/ ReadInput \/ ReadInputFail
    \/ ExecSyntaxError \/ ExecStmt \/ Filter

SpecParse == InitParse /\ [][NextParse]_vars

\* ================================================================ claims
\* The resolved deps mapping the filter reads: local_scope.get('deps', {}).
ResolvedDeps == ScopeGet(local_scope, "deps", <<>>)

Matching(deps) == {k \in DOMAIN deps : Contains(k, Marker)}

\* ParseDepsFile has returned and Main goes on.
FilterDone == pc \in {"open_output", "write_header", "write_projects", "done"}

\* exec has run every binding of the content.
EvalReturned ==
    /\ input.exists /\ input.wellformed
    /\ pc \notin {"open_input", "read_input"}
    /\ deps_content = input.bindings
    /\ ip > Len(deps_content)

\* Reading a manifest back: the value of the attribute whose opening quote
\* is at position i, and the position after its closing quote.
ReadAttr(text, i) ==
    LET close == CHOOSE j \in (i + 1)..Len(text) :
                     /\ text[j] = Quote
                     /\ \A m \in (i + 1)..(j - 1) : text[m] # Quote
    IN  [val |-> SubSeq(text, i + 1, close - 1), next |-> close + 1]

RECURSIVE ReadProjects(_, _)
ReadProjects(text, p) ==
    IF p > Len(text) THEN <<>>
    ELSE IF text[p] = "\n    <project name="
    THEN LET name == ReadAttr(text, p + 1)
             path == ReadAttr(text, name.next + 1)
             remote == ReadAttr(text, path.next + 1)
             revision == ReadAttr(text, remote.next + 1)
         IN  <<[name |-> name.val, path |-> path.val, remote |-> remote.val,
                revision |-> revision.val]>>
             \o ReadProjects(text, revision.next)
    ELSE ReadProjects(text, p + 1)

\* The project records of the output file as this run has written it so far.
Records ==
    IF manifest = "none" THEN <<>> ELSE ReadProjects(manifest_file.text, 1)

HasAt(v) == Contains(v, <<At>>)

\* ---------------------------------------------------------------------- C1
\* C1 (as claimed): when a value of the filtered map has no '@', the run
\* does not succeed and the output file stays as it was before the run.
C1_FileUntouched ==
    (\E k \in DOMAIN filtered_deps : ~HasAt(filtered_deps[k]))
        => (pc # "done" /\ manifest_file = prior)

\* ---------------------------------------------------------------------- C2
\* The next binding calls Var on a name that is not a key of vars.
UndefinedVarCall ==
    /\ pc = "exec" /\ input.wellformed /\ ip <= Len(deps_content)
    /\ deps_content[ip].name = "deps"
    /\ \E k \in DOMAIN deps_content[ip].value :
           \E i \in 1..Len(deps_content[ip].value[k]) :
               /\ deps_content[ip].value[k][i].var
               /\ deps_content[ip].value[k][i].text
                      \notin DOMAIN ScopeGet(local_scope, "vars", <<>>)

\* C2: a Var call on an undefined name raises: the run fails at that step
\* with no filtered map, the output file never opened and left as it was,
\* and a failed run takes no further step.
C2_UndefinedVarAborts ==
    [][ /\ UndefinedVarCall =>
             /\ pc' = "failed" /\ error' = "VarNotDefined"
             /\ filtered_deps' = <<>>
             /\ manifest' = "none" /\ manifest_file' = prior
        /\ pc # "failed" ]_vars

C2_Witness == pc = "failed" /\ error = "VarNotDefined"

\* ---------------------------------------------------------------------- C3
VarRefs(b) ==
    UNION {{b.value[k][i].text :
                i \in {j \in 1..Len(b.value[k]) : b.value[k][j].var}} :
            k \in DOMAIN b.value}

DepsIdx(bs) == {i \in 1..Len(bs) : bs[i].name = "deps"}
VarsIdx(bs) == {i \in 1..Len(bs) : bs[i].name = "vars"}
Last(I) == CHOOSE i \in I : \A j \in I : j <= i

\* The entries the file's deps binding declares (its last one; none: 0).
Declared(bs) ==
    IF DepsIdx(bs) = {} THEN 0
    ELSE Cardinality(DOMAIN bs[Last(DepsIdx(bs))].value)

\* The file's vars mapping covers every Var reference made in deps.
Covered(bs) ==
    \A i \in DepsIdx(bs) :
        /\ VarsIdx(bs) # {}
        /\ VarRefs(bs[i]) \subseteq DOMAIN bs[Last(VarsIdx(bs))].value

\* The vars binding in effect when binding i is evaluated covers its references.
CoveredInOrder(bs) ==
    \A i \in DepsIdx(bs) :
        LET before == {j \in VarsIdx(bs) : j < i}
        IN  VarRefs(bs[i]) # {} =>
                /\ before # {}
                /\ VarRefs(bs[i]) \subseteq DOMAIN bs[Last(before)].value

EvalSucceeds ==
    /\ error # "VarNotDefined"
    /\ EvalReturned => Cardinality(DOMAIN ResolvedDeps) = Declared(input.bindings)

\* C3 (as claimed): bindings in any order, vars covering every Var reference
\* of deps: no lookup raises and the resolved mapping has as many entries
\* as deps declares.
C3_AnyOrder ==
    (input.exists /\ input.wellformed /\ Covered(input.bindings)) => EvalSucceeds

\* C3 (amended): the same when every deps binding comes after a vars
\* binding that covers its Var references.
C3_VarsBeforeDeps ==
    (input.exists /\ input.wellformed /\ CoveredInOrder(input.bindings))
        => EvalSucceeds

C3_Witness ==
    /\ EvalReturned
    /\ CoveredInOrder(input.bindings)
    /\ \E i \in DepsIdx(input.bindings) : VarRefs(input.bindings[i]) # {}
    /\ Cardinality(DOMAIN ResolvedDeps) = 2

\* ---------------------------------------------------------------------- C4
Rewritten(k) == ReplaceFirst(k, Sdk, Dart)

\* C4 (as claimed): every matching entry is in the filtered map under its
\* rewritten key with its own value.
C4_EveryMatchKept ==
    FilterDone =>
        \A k \in Matching(ResolvedDeps) :
            /\ Rewritten(k) \in DOMAIN filtered_deps
            /\ filtered_deps[Rewritten(k)] = ResolvedDeps[k]

\* C4 (amended): every matching entry's rewritten key is in the filtered
\* map, with the value of a matching entry that rewrites to that key: its
\* own value when no other matching key rewrites to the same key.
C4_MatchKeptUpToCollision ==
    FilterDone =>
        \A k \in Matching(ResolvedDeps) :
            /\ Rewritten(k) \in DOMAIN filtered_deps
            /\ \E j \in Matching(ResolvedDeps) :
                   /\ Rewritten(j) = Rewritten(k)
                   /\ filtered_deps[Rewritten(k)] = ResolvedDeps[j]

C4_Witness ==
    /\ FilterDone
    /\ Cardinality(Matching(ResolvedDeps)) = 2
    /\ Cardinality(DOMAIN filtered_deps) = 2
    /\ \E k, j \in Matching(ResolvedDeps) : ResolvedDeps[k] # ResolvedDeps[j]

\* ---------------------------------------------------------------------- C5
\* C5 (as claimed): every filtered key is the rewrite of a matching key,
\* and no (key, value) pair of a non-matching entry is in the filtered map.
C5_NoPairOfNonMatching ==
    FilterDone =>
        /\ \A fk \in DOMAIN filtered_deps :
               \E k \in Matching(ResolvedDeps) : fk = Rewritten(k)
        /\ \A k \in DOMAIN ResolvedDeps \ Matching(ResolvedDeps) :
               ~(k \in DOMAIN filtered_deps /\ filtered_deps[k] = ResolvedDeps[k])

\* C5 (amended): every (key, value) pair of the filtered map is the
\* rewritten key and the value of a matching entry.
C5_OnlyMatchingEntries ==
    FilterDone =>
        \A fk \in DOMAIN filtered_deps :
            \E k \in Matching(ResolvedDeps) :
                fk = Rewritten(k) /\ filtered_deps[fk] = ResolvedDeps[k]

C5_Witness ==
    /\ FilterDone
    /\ Matching(ResolvedDeps) # {}
    /\ DOMAIN ResolvedDeps \ Matching(ResolvedDeps) # {}
    /\ Cardinality(DOMAIN filtered_deps) = 1

\* ---------------------------------------------------------------------- C6
\* C6 (as claimed): each record's remote is the text before the first '@'
\* of the value and its revision all of the text after it.
C6_SplitAtFirst ==
    \A i \in 1..Len(Records) :
        LET r == Records[i]
            v == filtered_deps[r.path]
            at == Find(v, <<At>>)
        IN  /\ r.remote = SubSeq(v, 1, at - 1)
            /\ r.revision = SubSeq(v, at + 1, Len(v))

\* ---------------------------------------------------------------------- C7
IsPrefix(a, b) == Len(a) <= Len(b) /\ SubSeq(b, 1, Len(a)) = a
IsSuffix(a, b) == Len(a) <= Len(b) /\ SubSeq(b, Len(b) - Len(a) + 1, Len(b)) = a

\* C7: a successful run leaves the header, then one record per entry of
\* the filtered map with name = path = the key, in strictly ascending
\* order of path, then the closing tags.
C7_SortedRecords ==
    pc = "done" =>
        /\ Len(Records) = Cardinality(DOMAIN filtered_deps)
        /\ {Records[i].path : i \in 1..Len(Records)} = DOMAIN filtered_deps
        /\ \A i \in 1..Len(Records) : Records[i].name = Records[i].path
        /\ \A i \in 1..(Len(Records) - 1) :
               StrLess(Records[i].path, Records[i + 1].path)
        /\ IsPrefix(Flatten(HeaderLines), manifest_file.text)
        /\ IsSuffix(Flatten(FooterLines), manifest_file.text)
        /\ Records = ReadProjects(SubSeq(manifest_file.text,
                                         Len(Flatten(HeaderLines)) + 1,
                                         Len(manifest_file.text) - Len(Flatten(FooterLines))), 1)

C7_Witness ==
    /\ pc = "done"
    /\ Len(Records) = 2
    /\ \E order \in Orders(DOMAIN ResolvedDeps) :
           StrLess(order[2], order[1]) /\ filtered_deps = FilterDeps(ResolvedDeps, order, <<>>)

\* ---------------------------------------------------------------------- C8
\* C8 (as claimed): when every value has an '@', the records read back
\* are exactly the entries of the map, remote '@' revision being the value.
C8_RoundTrip ==
    (pc = "done" /\ \A k \in DOMAIN filtered_deps : HasAt(filtered_deps[k])) =>
        {<<Records[i].path, Records[i].remote \o <<At>> \o Records[i].revision>> :
            i \in 1..Len(Records)}
        = {<<k, filtered_deps[k]>> : k \in DOMAIN filtered_deps}

\* ---------------------------------------------------------------------- C9
\* C9: no handle is open when the run has ended, the input handle is closed
\* from the start of evaluation on, and the two are never open together.
C9_HandlesReleased ==
    /\ pc \in {"done", "failed"} => (fp # "open" /\ manifest # "open")
    /\ pc \in {"exec", "open_output", "write_header", "write_projects"}
           => fp = "closed"
    /\ manifest # "none" => fp = "closed"

C9_Witness ==
    pc = "failed" /\ error = "IndexError" /\ fp = "closed" /\ manifest = "closed"

\* --------------------------------------------------------------------- C10
\* The key k with 'dart/third_party/pkg' where it had 'sdk/third_party/pkg' at p.
MarkerRewrittenAt(k, p) ==
    SubSeq(k, 1, p - 1) \o Dart \o ThirdPartyPkg
        \o SubSeq(k, p + Len(Marker), Len(k))

\* C10 (as claimed): for every matching key the replacement falls on the
\* 'sdk' of a 'sdk/third_party/pkg' segment.
C10_RewritesMarker ==
    FilterDone =>
        \A k \in Matching(ResolvedDeps) :
            \E p \in 1..Len(k) :
                /\ MatchAt(k, Marker, p)
                /\ MarkerRewrittenAt(k, p) \in DOMAIN filtered_deps

\* C10 (amended): it does for every matching key that has no 'sdk' before
\* its first 'sdk/third_party/pkg'.
C10_RewritesLeadingMarker ==
    FilterDone =>
        \A k \in Matching(ResolvedDeps) :
            Find(k, Sdk) = Find(k, Marker) =>
                MarkerRewrittenAt(k, Find(k, Marker)) \in DOMAIN filtered_deps

C10_Witness ==
    /\ FilterDone
    /\ \E k \in Matching(ResolvedDeps) :
           /\ Find(k, Sdk) = Find(k, Marker)
           /\ Find(k, Marker) > 1
           /\ Contains(SubSeq(k, Find(k, Marker) + 1, Len(k)), Sdk)

====
